---- MODULE Spec2Model ----
(***************************************************************************)
(* Stream-reconciliation and polling engine of swarm-comment-js:           *)
(* SwarmComment (send / init / poll loop) and SwarmHistory (tip reads,     *)
(* reaction refresh, history pages) over a shared-writer message feed and  *)
(* a shared-writer reaction feed.                                          *)
(*                                                                         *)
(* The engine is single-threaded and cooperative: every action below is    *)
(* one run-to-completion slice of the event loop, from the completion of   *)
(* one awaited storage call to the issue of the next one.  A storage read  *)
(* is issued in one action and completed in a later one; because both      *)
(* feeds only grow, what a read returns is determined by the length the    *)
(* feed had at the moment the storage node served it, which is any length  *)
(* between the length at issue (n0) and the length at completion.          *)
(***************************************************************************)
EXTENDS Integers, Sequences, FiniteSets, TLC

\* ------------------------------------------------------------------ bounds
MaxFeed == 3        \* entries the message feed may hold
MaxRFeed == 2       \* snapshots the reaction feed may hold
MaxSends == 3       \* sendMessage calls of a session that writes alone
MaxMixed == 2       \* sendMessage calls of a session that shares the feed
MaxTicks == 2       \* poll ticks after the one start() runs
MaxFaults == 1      \* storage calls that fail (throw or come back empty)
MaxClock == 1       \* Date.now() ranges over 0..MaxClock
MaxPages == 3       \* fetchPreviousMessages calls
MaxIndex == 300     \* indices whose texts are decoded
MaxCursor == 12     \* firstIndex checkpoints range over 0..MaxCursor

\* ------------------------------------------------------- program constants
COMMENTS_TO_READ == 9
RETRY_COUNT == 10       \* retries of the tip read in initOwnIndex
FeedIndexHexLen == 16   \* FeedIndex is 8 bytes, toString() gives 16 hex digits
NoValue == -2           \* JavaScript undefined (an absent bigint / option)
MinusOne == 2147483647  \* FeedIndex.MINUS_ONE.toBigInt() = 2^64-1 (ff..ff read as
                        \* an unsigned integer); TLC's integers end at 2^31-1, and
                        \* only its order against stream indices and differences
                        \* of a page width are used

\* ------------------------------------------------------------- IndexCodec
\* A string of digits is a sequence of digit values 0..15 (10..15 are a..f).
\* The len lowest digits of v in the radix, most significant first.
ToDigits(v, radix, len) ==
  LET q[k \in 0..len] == IF k = 0 THEN v ELSE q[k - 1] \div radix
  IN  [k \in 1..len |-> q[len - k] % radix]

\* FeedIndex.fromBigInt(i).toString(): the fixed-width hexadecimal form.
FeedIndexToString(i) == ToDigits(i, 16, FeedIndexHexLen)

\* parseInt(str, radix) on a string of digits all valid in the radix.
ParseInt(str, radix) ==
  LET acc[k \in 0..Len(str)] ==
        IF k = 0 THEN 0 ELSE acc[k - 1] * radix + str[k]
  IN  acc[Len(str)]

IsHex(str) ==
  \/ \E k \in 1..Len(str) : str[k] >= 10
  \/ str[1] = 0
  \/ Len(str) > 10

indexStrToBigint(str) ==
  IF str = <<>> THEN NoValue
  ELSE IF IsHex(str) THEN ParseInt(str, 16)
  ELSE ParseInt(str, 10)

\* The number of digits of v in the radix, without leading zeros.
NumDigits(v, radix) ==
  LET q[k \in 0..FeedIndexHexLen] == IF k = 0 THEN v ELSE q[k - 1] \div radix
  IN  CHOOSE k \in 1..FeedIndexHexLen : q[k] = 0 /\ (k > 1 => q[k - 1] # 0)

\* The texts of an index that reach indexStrToBigint: the fixed-width feed
\* index form, and the decimal and the unpadded hexadecimal form of legacy
\* data.
IndexText(i, form) ==
  IF form = "fixed" THEN FeedIndexToString(i)
  ELSE IF form = "hex" THEN ToDigits(i, 16, NumDigits(i, 16))
  ELSE IF form = "decimal" THEN ToDigits(i, 10, NumDigits(i, 10))
  ELSE <<>>

\* !x for x : bigint | undefined
Falsy(x) == x = NoValue \/ x = 0

\* ------------------------------------------------------ SignatureValidator
\* An entry carries, besides id and timestamp, the timestamp its signature
\* covers (sigTs).  The recomputed digest is over {username, address,
\* timestamp, message} of the entry itself, so the signature verifies exactly
\* when the signed timestamp is the entry's own; a forged entry has sigTs = -1.
validateUserSignature(e) == e.isLegacy \/ e.sigTs = e.ts

\* ----------------------------------------------------------------- state
VARIABLES
  feed,       \* message feed: feed[i+1] is the entry at index i
  rfeed,      \* reaction feed: rfeed[i+1] is the snapshot at index i
  now,        \* Date.now()
  faults,     \* storage calls that have failed so far
  ownIndex,   \* SwarmComment.userDetails.ownIndex
  reactionIndex,        \* SwarmComment.reactionIndex
  startIndex,           \* SwarmHistory.startIndex
  isSending,            \* SwarmComment.isSending
  stopFetch,            \* SwarmComment.stopFetch
  fetchProcessRunning,  \* SwarmComment.fetchProcessRunning
  initPc,     \* init(): "none", "run", "ok" (loadingInit false), "critical"
  initOwn,    \* initOwnIndex(): its position and locals
  initHist,   \* SwarmHistory.init(): its position and locals
  initRea,    \* initReactionIndex(): its position and locals
  loop,       \* the poll loop: its position and the two branches of a tick
  ticks,      \* poll ticks started by the timer
  sends,      \* the sendMessage calls
  page,       \* the fetchPreviousMessages call in progress
  pages,      \* fetchPreviousMessages calls made
  loadingPrevious,  \* loadingPreviousMessages emissions: how many with true
                    \* (on) and how many with false (off)
  received,   \* messageReceived emissions per message-feed index (2 = more than one)
  uploaded,   \* indices of messageRequestUploaded events of TEXT/THREAD sends, in order
  receivedReactions,  \* messageReceived emissions of reaction snapshots, per
                      \* next-free index the refresh observed (2 = more than one)
  codec,      \* an indexStrToBigint call: the index string and what it returned
  oldLoop     \* the poll loop of the start() before the last one, while it
              \* has a tick or its timer pending

vars == <<feed, rfeed, now, faults, ownIndex, reactionIndex, startIndex,
          isSending, stopFetch, fetchProcessRunning, initPc, initOwn, initHist,
          initRea, loop, ticks, sends, page, pages, loadingPrevious, received,
          uploaded, receivedReactions, codec, oldLoop>>

auxVars == <<codec, oldLoop>>

storeVars == <<feed, rfeed>>
flagVars == <<stopFetch, fetchProcessRunning>>
initVars == <<initPc, initOwn, initHist, initRea>>
pageVars == <<page, pages, loadingPrevious>>

SendIds == 1..MaxSends
Kinds == {"TEXT", "THREAD", "REACTION"}

Min(a, b) == IF a < b THEN a ELSE b
Max(a, b) == IF a > b THEN a ELSE b

\* ------------------------------------------------------- storage (external)
\* Entries other writers append: properly signed, forged, or legacy.
OtherEntry(k) ==
  [id |-> 0, ts |-> 0,
   sigTs |-> IF k = "signed" THEN 0 ELSE -1,
   isLegacy |-> (k = "legacy")]

\* writeCommentToIndex / writeReactionsToIndex as the feed sees it: a write to
\* the next free index appends; a write to an index already taken is dropped
\* without an error (README, Limitations).
WriteAt(f, idx, e) == IF idx = Len(f) THEN Append(f, e) ELSE f

\* Whether the feed has room, within the bound, for a write at idx to land.
CanLand(f, idx, max) == idx < Len(f) \/ Len(f) < max

\* readSingleComment(undefined): the index string of the latest entry of a
\* feed served at length n (NoValue stands for no comment at all).
TipIndexStr(n) == IF n = 0 THEN <<>> ELSE FeedIndexToString(n - 1)

\* readCommentsInRange(lo, hi) served at length n: the indices it returns.  A
\* negative lo wraps in FeedIndex.fromBigInt to an index beyond hi: nothing.
RangeIndices(lo, hi, n) ==
  IF lo < 0 THEN {} ELSE {i \in 0..(n - 1) : lo <= i /\ i <= hi}

\* ------------------------------------------------------------- emissions
Emit(rcv, S) ==
  [i \in DOMAIN rcv |-> IF i \in S THEN Min(rcv[i] + 1, 2) ELSE rcv[i]]

\* ---------------------------------------------------------- SwarmHistory
\* fetchLatestMessage(): the FeedIndex it returns for a tip read served at
\* length n (MinusOne when there is no comment or the parsed index is falsy).
HistLatestIndex(n) ==
  LET parsedIx == indexStrToBigint(TipIndexStr(n))
  IN  IF n = 0 \/ Falsy(parsedIx) THEN MinusOne ELSE parsedIx

\* fetchLatestReactionState(index, prevIndex): the FeedIndex it returns for a
\* snapshot read whose nextIndex string is nextStr (FEED_INDEX_ZERO = 0).
ReactionNextIndex(nextStr) ==
  LET nextIx == indexStrToBigint(nextStr)
  IN  IF Falsy(nextIx) \/ nextIx < 0 \/ nextIx = MinusOne THEN 0 ELSE nextIx

\* fetchLatestReactionState(index, prevIndex): the snapshot whose next-free
\* index is next is emitted as messageReceived when next > prevIndex + 1.
EmitReactions(rr, prevIndex, next) ==
  IF next > prevIndex + 1 THEN [rr EXCEPT ![next] = Min(@ + 1, 2)] ELSE rr

\* Mutant: a cursor of 0 counts as having previous messages.
HasPreviousFromZero == startIndex >= 0

\* hasPreviousMessages()
hasPreviousMessages == startIndex > 0

\* Mutant: the lower bound of a page is not clamped at 0.
NewStartIndexUnclamped(c) == c - COMMENTS_TO_READ

\* fetchPreviousMessageState(): the lower bound of the next page.
NewStartIndex(c) == IF c > COMMENTS_TO_READ THEN c - COMMENTS_TO_READ ELSE 0

\* ---------------------------------------------------------- SwarmComment
\* sendMessage: the index the next write targets.
NextWriteIndex(p) == IF p = -1 THEN 0 ELSE p + 1

\* fetchLatestMessage() after its tip read: the new ownIndex.
OwnAfterTip(own, index) ==
  IF index # MinusOne /\ own < index THEN index ELSE own

\* fetchLatestMessage() after its tip read: the indices it emits.
EmitAfterTip(own, index) ==
  IF index # MinusOne /\ own < index THEN {index} ELSE {}

\* Mutant: the verified send keeps a pointer the poll loop moved further.
OwnNeverBack(own, nextIndex) == Max(own, nextIndex)

\* sendMessage after verifyWriteSuccess: the new ownIndex.
OwnAfterVerified(own, nextIndex) == nextIndex

\* fetchLatestReactions() after its read: the new reactionIndex.
ReactionAfterRefresh(rix, next) == IF next - 1 > rix THEN next - 1 ELSE rix

\* Mutant: the read-back is compared by id only.
VerifyIdOnly(dataCheck, data) == dataCheck.id = data.id

\* verifyWriteSuccess: the comparison of the read-back with what was sent.
VerifyMatches(dataCheck, data) ==
  dataCheck.id = data.id /\ dataCheck.ts = data.ts

\* updateReactions(prevState, messageObj): the merge collaborator, adding the
\* reaction to the snapshot.
updateReactions(prevState, id) == prevState \cup {id}

\* A sendMessage call: its position, its messageObj and locals, the storage
\* writes it has issued (writes) and the events it has emitted
\* (messageRequestInitiated: ini, messageRequestUploaded: up,
\* messageRequestError: err).
IdleSend ==
  [pc |-> "idle", kind |-> "TEXT", id |-> 0, ts |-> 0, sigTs |-> 0,
   idx |-> -1, pre |-> -1, n0 |-> 0, prev |-> -1, st |-> {},
   chk |-> "none", out |-> "none",
   writes |-> 0, ini |-> 0, up |-> 0, err |-> 0]

IdleLoop == [pc |-> "off", m |-> "none", mn |-> 0,
             r |-> "none", ri |-> 0, rp |-> -1, rn |-> 0]

\* A branch of init(): its position and locals; err records that it handed
\* an error to errorHandler.handleError.
IdleBranch == [pc |-> "none", n0 |-> 0, latest |-> NoValue, left |-> 0,
               lo |-> 0, hi |-> 0, prev |-> -1, err |-> FALSE]

IdlePage == [pc |-> "idle", lo |-> 0, hi |-> 0, n0 |-> 0]

\* An indexStrToBigint call: the index i whose text in the given form is str,
\* whether the call has returned, and what it returned.
IdleCodec == [i |-> 0, form |-> "none", str |-> <<>>, done |-> FALSE,
              out |-> NoValue]

InitSession ==
  /\ feed = <<>>
  /\ rfeed = <<>>
  /\ now = 0
  /\ faults = 0
  /\ ownIndex = -1
  /\ reactionIndex = -1
  /\ startIndex = -1
  /\ isSending = FALSE
  /\ stopFetch = FALSE
  /\ fetchProcessRunning = FALSE
  /\ initPc = "none"
  /\ initOwn = IdleBranch
  /\ initHist = IdleBranch
  /\ initRea = IdleBranch
  /\ loop = IdleLoop
  /\ ticks = 0
  /\ sends = [s \in SendIds |-> IdleSend]
  /\ page = IdlePage
  /\ pages = 0
  /\ loadingPrevious = [on |-> 0, off |-> 0]
  /\ received = [i \in 0..(MaxFeed - 1) |-> 0]
  /\ uploaded = <<>>
  /\ receivedReactions = [n \in 1..MaxRFeed |-> 0]
  /\ oldLoop = IdleLoop

Init == InitSession /\ codec = IdleCodec

\* indexStrToBigint is about to be called with the text of an index in one
\* of its forms, or with an absent string.
InitCodec ==
  /\ InitSession
  /\ codec \in {[IdleCodec EXCEPT !.i = i, !.form = form,
                                  !.str = IndexText(i, form)] :
                  i \in 0..MaxIndex, form \in {"fixed", "hex", "decimal"}}
             \cup {[IdleCodec EXCEPT !.form = "absent"]}


sessionVars == <<feed, rfeed, now, faults, ownIndex, reactionIndex, startIndex,
                 isSending, stopFetch, fetchProcessRunning, initPc, initOwn,
                 initHist, initRea, loop, ticks, sends, page, pages,
                 loadingPrevious, received, uploaded, receivedReactions,
                 oldLoop>>

\* indexStrToBigint(indexStr) is called and returns.
ParseIndex ==
  /\ codec.form # "none"
  /\ ~codec.done
  /\ codec' = [codec EXCEPT !.done = TRUE, !.out = indexStrToBigint(codec.str)]
  /\ UNCHANGED sessionVars

envVars == <<now, faults>>
ptrVars == <<ownIndex, reactionIndex, startIndex, isSending>>
loopVars == <<loop, ticks>>
outVars == <<received, uploaded, receivedReactions>>

\* ------------------------------------------------------------ environment
\* Another writer appends an entry to the message feed.
OtherAppend(k) ==
  /\ Len(feed) < MaxFeed
  /\ feed' = Append(feed, OtherEntry(k))
  /\ UNCHANGED <<rfeed, envVars, ptrVars, flagVars, initVars, loopVars, sends,
                 pageVars, outVars, auxVars>>

\* Another writer appends its snapshot (the latest one plus its reaction 0).
OtherReact ==
  /\ Len(rfeed) < MaxRFeed
  /\ rfeed' = Append(rfeed,
       [by |-> 0,
        st |-> (IF rfeed = <<>> THEN {} ELSE rfeed[Len(rfeed)].st) \cup {0}])
  /\ UNCHANGED <<feed, envVars, ptrVars, flagVars, initVars, loopVars, sends,
                 pageVars, outVars, auxVars>>

ClockTick ==
  /\ now < MaxClock
  /\ now' = now + 1
  /\ UNCHANGED <<storeVars, faults, ptrVars, flagVars, initVars, loopVars, sends,
                 pageVars, outVars, auxVars>>

\* ------------------------------------------------------------- start, stop
\* Mutant: the guard suppresses the reaction refresh of a tick as well.
PollIssueGuarded(rix) ==
  [pc |-> "tick",
   m |-> IF isSending THEN "skipped" ELSE "read", mn |-> Len(feed),
   r |-> IF isSending THEN "done" ELSE "read", ri |-> rix + 1, rp |-> rix,
   rn |-> Len(rfeed)]

\* poll() past its stopFetch test: Promise.allSettled issues both branches in
\* the same slice; fetchLatestMessage() returns at once while isSending.
PollIssue(rix) ==
  [pc |-> "tick",
   m |-> IF isSending THEN "skipped" ELSE "read", mn |-> Len(feed),
   r |-> "read", ri |-> rix + 1, rp |-> rix, rn |-> Len(rfeed)]

\* start(options): the synchronous part of init() (the three initialisations
\* up to their first await) followed by startMessagesFetchProcess() and the
\* first poll() call.  An absent option is NoValue.
StartBody(latest, first, rix) ==
  LET f == IF first # NoValue THEN first ELSE latest
      rix1 == IF rix # NoValue THEN rix ELSE reactionIndex
  IN  /\ initPc' = "run"
      /\ ownIndex' = IF latest # NoValue THEN latest ELSE ownIndex
      /\ initOwn' = [IdleBranch EXCEPT !.pc = "tip", !.n0 = Len(feed),
                                       !.latest = latest, !.left = RETRY_COUNT]
      /\ startIndex' = IF f # NoValue THEN f ELSE startIndex
      /\ initHist' = IF f # NoValue
                       THEN [IdleBranch EXCEPT !.pc = "done"]
                       ELSE [IdleBranch EXCEPT !.pc = "tip", !.n0 = Len(feed)]
      /\ reactionIndex' = rix1
      /\ initRea' = IF rix # NoValue
                      THEN [IdleBranch EXCEPT !.pc = "done"]
                      ELSE [IdleBranch EXCEPT !.pc = "read", !.n0 = Len(rfeed),
                                              !.prev = reactionIndex]
      /\ fetchProcessRunning' = TRUE
      /\ stopFetch' = FALSE
      /\ loop' = PollIssue(rix1)

\* The first start(options) of the session.
Start(latest, first, rix) ==
  /\ initPc = "none"
  /\ ~fetchProcessRunning
  /\ StartBody(latest, first, rix)
  /\ UNCHANGED <<storeVars, envVars, isSending, ticks, sends, pageVars, outVars,
                 auxVars>>

\* start(options) after stop(), once the earlier init() has settled:
\* fetchProcessRunning is false, so a new poll loop is begun; the loop of the
\* earlier start() keeps whatever it has pending.
Restart(latest, first, rix) ==
  /\ initPc \in {"ok", "critical"}
  /\ ~fetchProcessRunning
  /\ oldLoop.pc = "off"
  /\ StartBody(latest, first, rix)
  /\ oldLoop' = loop
  /\ UNCHANGED <<storeVars, envVars, isSending, ticks, sends, pageVars, outVars,
                 codec>>

\* stop(): the poll loop is told to stop, the history cursor and the reaction
\* pointer are reset; calls in flight go on.  (The emitter drops its
\* listeners; received and uploaded record the emit calls.)
Stop ==
  /\ fetchProcessRunning
  /\ ~stopFetch
  /\ stopFetch' = TRUE
  /\ startIndex' = -1
  /\ reactionIndex' = -1
  /\ fetchProcessRunning' = FALSE
  /\ UNCHANGED <<storeVars, envVars, ownIndex, isSending, initVars, loopVars,
                 sends, pageVars, outVars, auxVars>>

\* Mutant: any branch that reported an error makes init() critical.
InitSettleStrict(own, hist, rea) ==
  IF own.pc \in {"done", "rejected"} /\ hist.pc = "done" /\ rea.pc = "done"
    THEN IF own.pc = "rejected" \/ hist.err \/ rea.err THEN "critical" ELSE "ok"
    ELSE initPc

\* init() after Promise.allSettled: loadingInit(false), or criticalError when
\* initOwnIndex rejected.
InitSettle(own, hist, rea) ==
  IF own.pc \in {"done", "rejected"} /\ hist.pc = "done" /\ rea.pc = "done"
    THEN IF own.pc = "rejected" THEN "critical" ELSE "ok"
    ELSE initPc

\* Mutant: one more attempt is made when no retries are left.
RetryOnceMore(b) ==
  IF b.left >= 0
    THEN [b EXCEPT !.left = @ - 1, !.n0 = Len(feed)]
    ELSE [b EXCEPT !.pc = "rejected", !.err = TRUE]

\* retryAwaitableAsync(fn, retries, delay) after fn has thrown: with retries
\* left fn is called again (one retry fewer), else the error is handed to
\* handleError and the promise rejects.
RetryOrReject(b) ==
  IF b.left > 0
    THEN [b EXCEPT !.left = @ - 1, !.n0 = Len(feed)]
    ELSE [b EXCEPT !.pc = "rejected", !.err = TRUE]

\* initOwnIndex: the tip read inside retryAwaitableAsync throws.
InitOwnTipThrow ==
  /\ initOwn.pc = "tip"
  /\ faults' = faults + 1
  /\ initOwn' = RetryOrReject(initOwn)
  /\ initPc' = InitSettle(initOwn', initHist, initRea)
  /\ UNCHANGED <<storeVars, now, ptrVars, flagVars, initHist, initRea, loopVars,
                 sends, pageVars, outVars, auxVars>>

\* The same, within the budget of storage failures.
InitOwnTipFail == faults < MaxFaults /\ InitOwnTipThrow

\* initOwnIndex: the tip read returns; when the tip is beyond ownIndex the
\* pointer moves to it and the backfill range read is issued.
InitOwnTipDone(n) ==
  /\ initOwn.pc = "tip"
  /\ n \in initOwn.n0..Len(feed)
  /\ LET parsedIx == indexStrToBigint(TipIndexStr(n))
         ahead == ~Falsy(parsedIx) /\ parsedIx # MinusOne /\ parsedIx > ownIndex
         start == IF initOwn.latest = NoValue
                    THEN parsedIx - COMMENTS_TO_READ ELSE ownIndex
     IN  /\ ownIndex' = IF ahead THEN parsedIx ELSE ownIndex
         /\ initOwn' = IF ahead
                         THEN [initOwn EXCEPT !.pc = "backfill", !.lo = start + 1,
                                              !.hi = parsedIx, !.n0 = Len(feed)]
                         ELSE [initOwn EXCEPT !.pc = "done"]
  /\ initPc' = InitSettle(initOwn', initHist, initRea)
  /\ UNCHANGED <<storeVars, envVars, reactionIndex, startIndex, isSending,
                 flagVars, initHist, initRea, loopVars, sends, pageVars, outVars, auxVars>>

\* Mutant: the first invalid entry aborts the page.
ValidPrefix(S) ==
  {i \in S : \A j \in S : j <= i => validateUserSignature(feed[j + 1])}

\* fetchMessagesInRange: the entries of a range read that are emitted.
ValidIn(S) == {i \in S : validateUserSignature(feed[i + 1])}

\* initOwnIndex: the backfill range read returns and its valid entries are
\* emitted.
InitOwnBackfillDone(n) ==
  /\ initOwn.pc = "backfill"
  /\ n \in initOwn.n0..Len(feed)
  /\ received' = Emit(received, ValidIn(RangeIndices(initOwn.lo, initOwn.hi, n)))
  /\ initOwn' = [initOwn EXCEPT !.pc = "done"]
  /\ initPc' = InitSettle(initOwn', initHist, initRea)
  /\ UNCHANGED <<storeVars, envVars, ptrVars, flagVars, initHist, initRea,
                 loopVars, sends, pageVars, uploaded, receivedReactions, auxVars>>

\* Mutant: a failed backfill rolls the pointer back to where the range began.
InitOwnBackfillRollback ==
  /\ initOwn.pc = "backfill"
  /\ initOwn.lo >= 0 => faults < MaxFaults
  /\ faults' = IF initOwn.lo < 0 THEN faults ELSE faults + 1
  /\ ownIndex' = initOwn.lo - 1
  /\ initOwn' = [initOwn EXCEPT !.pc = "rejected", !.err = TRUE]
  /\ initPc' = InitSettle(initOwn', initHist, initRea)
  /\ UNCHANGED <<storeVars, now, reactionIndex, startIndex, isSending,
                 flagVars, initHist, initRea, loopVars, sends, pageVars,
                 outVars, auxVars>>

\* initOwnIndex: the backfill range read throws (a storage failure, or a
\* negative start index refused): initOwnIndex rejects, ownIndex stays.
InitOwnBackfillFail ==
  /\ initOwn.pc = "backfill"
  /\ initOwn.lo >= 0 => faults < MaxFaults
  /\ faults' = IF initOwn.lo < 0 THEN faults ELSE faults + 1
  /\ initOwn' = [initOwn EXCEPT !.pc = "rejected", !.err = TRUE]
  /\ initPc' = InitSettle(initOwn', initHist, initRea)
  /\ UNCHANGED <<storeVars, now, ptrVars, flagVars, initHist, initRea, loopVars,
                 sends, pageVars, outVars, auxVars>>

\* SwarmHistory.init: the tip read returns; the latest comment is emitted and
\* the cursor is set to its index (to MinusOne's value when there is none).
InitHistDone(n) ==
  /\ initHist.pc = "tip"
  /\ n \in initHist.n0..Len(feed)
  /\ LET index == HistLatestIndex(n)
     IN  /\ received' = Emit(received, IF index # MinusOne THEN {index} ELSE {})
         /\ startIndex' = index
  /\ initHist' = [initHist EXCEPT !.pc = "done"]
  /\ initPc' = InitSettle(initOwn, initHist', initRea)
  /\ UNCHANGED <<storeVars, envVars, ownIndex, reactionIndex, isSending, flagVars,
                 initOwn, initRea, loopVars, sends, pageVars, uploaded, receivedReactions, auxVars>>

\* SwarmHistory.init: the tip read throws (not-found on an empty feed, or a
\* storage failure); the error is absorbed and the cursor stays.
InitHistFail ==
  /\ initHist.pc = "tip"
  /\ Len(feed) > 0 => faults < MaxFaults
  /\ faults' = IF Len(feed) = 0 THEN faults ELSE faults + 1
  /\ initHist' = [initHist EXCEPT !.pc = "done", !.err = TRUE]
  /\ initPc' = InitSettle(initOwn, initHist', initRea)
  /\ UNCHANGED <<storeVars, now, ptrVars, flagVars, initOwn, initRea, loopVars,
                 sends, pageVars, outVars, auxVars>>

\* readReactionsWithIndex(undefined) served at length n: its nextIndex string.
LatestNextStr(n) == FeedIndexToString(n)

\* initReactionIndex without a checkpoint: fetchLatestReactions() returns.
InitReaDone(n) ==
  /\ initRea.pc = "read"
  /\ n \in initRea.n0..Len(rfeed)
  /\ LET next == ReactionNextIndex(LatestNextStr(n))
     IN  /\ receivedReactions' =
              EmitReactions(receivedReactions, initRea.prev, next)
         /\ reactionIndex' = ReactionAfterRefresh(reactionIndex, next)
  /\ initRea' = [initRea EXCEPT !.pc = "done"]
  /\ initPc' = InitSettle(initOwn, initHist, initRea')
  /\ UNCHANGED <<storeVars, envVars, ownIndex, startIndex, isSending, flagVars,
                 initOwn, initHist, loopVars, sends, pageVars, received,
                 uploaded, auxVars>>

\* initReactionIndex: the read throws; fetchLatestReactions absorbs it.
InitReaFail ==
  /\ initRea.pc = "read"
  /\ faults < MaxFaults
  /\ faults' = faults + 1
  /\ initRea' = [initRea EXCEPT !.pc = "done", !.err = TRUE]
  /\ initPc' = InitSettle(initOwn, initHist, initRea')
  /\ UNCHANGED <<storeVars, now, ptrVars, flagVars, initOwn, initHist, loopVars,
                 sends, pageVars, outVars, auxVars>>


\* -------------------------------------------------------------- poll loop
\* Mutant: the next tick is put on the timer as soon as the message branch
\* is done.
LoopSettleEager(l) ==
  IF l.m # "read" THEN [IdleLoop EXCEPT !.pc = "wait"] ELSE l

\* Promise.allSettled of a tick: once both branches are done the next tick is
\* put on the timer.
LoopSettle(l) ==
  IF l.m \in {"done", "skipped"} /\ l.r = "done"
    THEN [IdleLoop EXCEPT !.pc = "wait"] ELSE l

\* Mutant: poll() does not look at stopFetch.
TickStartDeaf ==
  /\ loop.pc = "wait"
  /\ ticks < MaxTicks
  /\ ticks' = ticks + 1
  /\ loop' = LoopSettle(PollIssue(reactionIndex))
  /\ UNCHANGED <<storeVars, envVars, ptrVars, flagVars, initVars, sends,
                 pageVars, outVars, auxVars>>

\* The timer fires poll().
TickStart ==
  /\ loop.pc = "wait"
  /\ ~stopFetch => ticks < MaxTicks
  /\ ticks' = IF stopFetch THEN ticks ELSE ticks + 1
  /\ IF stopFetch
       THEN /\ fetchProcessRunning' = FALSE
            /\ loop' = IdleLoop
       ELSE /\ loop' = LoopSettle(PollIssue(reactionIndex))
            /\ UNCHANGED fetchProcessRunning
  /\ UNCHANGED <<storeVars, envVars, ptrVars, stopFetch, initVars, sends,
                 pageVars, outVars, auxVars>>

\* The message branch of a tick: the tip read returns.
PollMsgDone(n) ==
  /\ loop.pc = "tick" /\ loop.m = "read"
  /\ n \in loop.mn..Len(feed)
  /\ LET index == HistLatestIndex(n)
     IN  /\ ownIndex' = OwnAfterTip(ownIndex, index)
         /\ received' = Emit(received, EmitAfterTip(ownIndex, index))
  /\ loop' = LoopSettle([loop EXCEPT !.m = "done"])
  /\ UNCHANGED <<storeVars, envVars, reactionIndex, startIndex, isSending,
                 flagVars, initVars, ticks, sends, pageVars, uploaded, receivedReactions, auxVars>>

\* The message branch of a tick: the tip read throws; the error is absorbed.
PollMsgFail ==
  /\ loop.pc = "tick" /\ loop.m = "read"
  /\ faults < MaxFaults
  /\ faults' = faults + 1
  /\ loop' = LoopSettle([loop EXCEPT !.m = "done"])
  /\ UNCHANGED <<storeVars, now, ptrVars, flagVars, initVars, ticks, sends,
                 pageVars, outVars, auxVars>>

\* The reaction branch of a tick: the read at index reactionIndex + 1 returns
\* the snapshot there (its nextIndex is the index after it), or finds none
\* and throws, which fetchLatestReactions absorbs.
PollReaDone(n) ==
  /\ loop.pc = "tick" /\ loop.r = "read"
  /\ n \in loop.rn..Len(rfeed)
  /\ LET next == ReactionNextIndex(FeedIndexToString(loop.ri + 1))
     IN  IF loop.ri < n
           THEN /\ receivedReactions' =
                     EmitReactions(receivedReactions, loop.rp, next)
                /\ reactionIndex' = ReactionAfterRefresh(reactionIndex, next)
           ELSE UNCHANGED <<receivedReactions, reactionIndex>>
  /\ loop' = LoopSettle([loop EXCEPT !.r = "done"])
  /\ UNCHANGED <<storeVars, envVars, ownIndex, startIndex, isSending, flagVars,
                 initVars, ticks, sends, pageVars, received, uploaded, auxVars>>

\* The reaction branch of a tick: the read throws a storage failure.
PollReaFail ==
  /\ loop.pc = "tick" /\ loop.r = "read"
  /\ faults < MaxFaults
  /\ faults' = faults + 1
  /\ loop' = LoopSettle([loop EXCEPT !.r = "done"])
  /\ UNCHANGED <<storeVars, now, ptrVars, flagVars, initVars, ticks, sends,
                 pageVars, outVars, auxVars>>

\* The loop of the earlier start(): its timer fires poll(), which looks at
\* the same stopFetch flag.
OldTickStart ==
  /\ oldLoop.pc = "wait"
  /\ ~stopFetch => ticks < MaxTicks
  /\ ticks' = IF stopFetch THEN ticks ELSE ticks + 1
  /\ IF stopFetch
       THEN /\ fetchProcessRunning' = FALSE
            /\ oldLoop' = IdleLoop
       ELSE /\ oldLoop' = LoopSettle(PollIssue(reactionIndex))
            /\ UNCHANGED fetchProcessRunning
  /\ UNCHANGED <<storeVars, envVars, ptrVars, stopFetch, initVars, loop, sends,
                 pageVars, outVars, codec>>

\* The loop of the earlier start(): the tip read of its tick returns.
OldPollMsgDone(n) ==
  /\ oldLoop.pc = "tick" /\ oldLoop.m = "read"
  /\ n \in oldLoop.mn..Len(feed)
  /\ LET index == HistLatestIndex(n)
     IN  /\ ownIndex' = OwnAfterTip(ownIndex, index)
         /\ received' = Emit(received, EmitAfterTip(ownIndex, index))
  /\ oldLoop' = LoopSettle([oldLoop EXCEPT !.m = "done"])
  /\ UNCHANGED <<storeVars, envVars, reactionIndex, startIndex, isSending,
                 flagVars, initVars, loopVars, sends, pageVars, uploaded,
                 receivedReactions, codec>>

\* The loop of the earlier start(): the reaction read of its tick returns.
OldPollReaDone(n) ==
  /\ oldLoop.pc = "tick" /\ oldLoop.r = "read"
  /\ n \in oldLoop.rn..Len(rfeed)
  /\ LET next == ReactionNextIndex(FeedIndexToString(oldLoop.ri + 1))
     IN  IF oldLoop.ri < n
           THEN /\ receivedReactions' =
                     EmitReactions(receivedReactions, oldLoop.rp, next)
                /\ reactionIndex' = ReactionAfterRefresh(reactionIndex, next)
           ELSE UNCHANGED <<receivedReactions, reactionIndex>>
  /\ oldLoop' = LoopSettle([oldLoop EXCEPT !.r = "done"])
  /\ UNCHANGED <<storeVars, envVars, ownIndex, startIndex, isSending, flagVars,
                 initVars, loopVars, sends, pageVars, received, uploaded, codec>>

\* ------------------------------------------------------------ sendMessage
\* The reaction states a caller may hand in as prevState: none, or a snapshot
\* it has seen on the feed.
PrevStates == {{}} \cup {rfeed[k].st : k \in 1..Len(rfeed)}

\* Mutant: the guard is cleared only when the send was uploaded.
GuardClearedOnUpload(out) == out # "uploaded"

\* sendMessage, finally block: isSending after the call, whatever its outcome.
GuardAfterSend(out) == FALSE

\* Mutant: a failed send writes again at the next index.
SendErrorRetry(snd, chk) ==
  [snd EXCEPT !.pc = "write", !.chk = chk, !.err = @ + 1,
              !.idx = @ + 1, !.writes = @ + 1]

\* Mutant: a failed send reports nothing.
SendErrorSilent(snd, chk) ==
  [snd EXCEPT !.pc = "done", !.out = "error", !.chk = chk]

\* The catch and finally blocks of sendMessage.
SendError(snd, chk) ==
  [snd EXCEPT !.pc = "done", !.out = "error", !.chk = chk, !.err = @ + 1]

\* sendMessage(message, type, targetMessageId, id, prevState) up to its first
\* await.  getSignature() reads the clock before the timestamp field does; adv
\* is what the clock advanced in between.  A TEXT/THREAD send whose
\* fetchLatestMessage() returns at once (isSending) goes straight to its write.
SendStart(s, kind, id, adv, prevState) ==
  /\ sends[s].pc = "idle"
  /\ s > 1 => sends[s - 1].pc # "idle"
  /\ initPc # "none"
  /\ now + adv <= MaxClock
  /\ now' = now + adv
  /\ LET m == [IdleSend EXCEPT !.kind = kind, !.id = id, !.sigTs = now,
                               !.ts = now + adv, !.ini = 1]
     IN  sends' = [sends EXCEPT ![s] =
           IF kind = "REACTION"
             THEN [m EXCEPT !.pc = "rresync", !.n0 = Len(rfeed),
                            !.prev = reactionIndex, !.st = prevState]
           ELSE IF isSending
             THEN [m EXCEPT !.pc = "write", !.pre = ownIndex,
                            !.idx = NextWriteIndex(ownIndex), !.writes = 1]
           ELSE [m EXCEPT !.pc = "resync", !.n0 = Len(feed)]]
  /\ UNCHANGED <<storeVars, faults, ptrVars, flagVars, initVars, loopVars,
                 pageVars, outVars, auxVars>>

\* Mutant: the retry is sent under a new id.
retrySendAsNew(s, t) ==
  /\ sends[t].pc # "idle"
  /\ SendStart(s, sends[t].kind, s, 0, {})

\* retrySendMessage(message): message is the messageObj of the earlier call t,
\* as its events carried it; sendMessage is called with its body, type,
\* targetMessageId and id, and without a prevState.
retrySendMessage(s, t) ==
  /\ sends[t].pc # "idle"
  /\ SendStart(s, sends[t].kind, sends[t].id, 0, {})

\* TEXT/THREAD: the tip resync returns, the write index is computed from the
\* pointer, the guard is set and the write is issued.
SendResyncDone(s, n) ==
  /\ sends[s].pc = "resync"
  /\ n \in sends[s].n0..Len(feed)
  /\ LET index == HistLatestIndex(n)
         own == OwnAfterTip(ownIndex, index)
     IN  /\ ownIndex' = own
         /\ received' = Emit(received, EmitAfterTip(ownIndex, index))
         /\ sends' = [sends EXCEPT ![s].pc = "write", ![s].pre = own,
                                   ![s].idx = NextWriteIndex(own),
                                   ![s].writes = @ + 1]
  /\ isSending' = TRUE
  /\ UNCHANGED <<storeVars, envVars, reactionIndex, startIndex, flagVars,
                 initVars, loopVars, pageVars, uploaded, receivedReactions, auxVars>>

\* TEXT/THREAD: the tip resync throws; fetchLatestMessage absorbs the error
\* and the send goes on with the pointer as it is.
SendResyncFail(s) ==
  /\ sends[s].pc = "resync"
  /\ faults < MaxFaults
  /\ faults' = faults + 1
  /\ sends' = [sends EXCEPT ![s].pc = "write", ![s].pre = ownIndex,
                            ![s].idx = NextWriteIndex(ownIndex),
                            ![s].writes = @ + 1]
  /\ isSending' = TRUE
  /\ UNCHANGED <<storeVars, now, ownIndex, reactionIndex, startIndex, flagVars,
                 initVars, loopVars, pageVars, outVars, auxVars>>

SendEntry(snd) ==
  [id |-> snd.id, ts |-> snd.ts, sigTs |-> snd.sigTs, isLegacy |-> FALSE]

\* TEXT/THREAD: writeCommentToIndex returns.  "ok": the feed took the write
\* (or dropped it on a taken index) and a receipt came back, so
\* verifyWriteSuccess issues the read-back; "noReceipt": the feed took it but
\* the call threw or returned nothing; "lost": neither.
SendWriteDone(s, outcome) ==
  /\ sends[s].pc = "write"
  /\ outcome # "lost" => CanLand(feed, sends[s].idx, MaxFeed)
  /\ outcome # "ok" => faults < MaxFaults
  /\ faults' = IF outcome = "ok" THEN faults ELSE faults + 1
  /\ feed' = IF outcome = "lost" THEN feed
             ELSE WriteAt(feed, sends[s].idx, SendEntry(sends[s]))
  /\ sends' = [sends EXCEPT ![s] =
       IF outcome = "ok" THEN [@ EXCEPT !.pc = "verify", !.n0 = Len(feed')]
       ELSE SendError(@, "none")]
  /\ isSending' = IF outcome = "ok" THEN isSending
                ELSE GuardAfterSend(sends'[s].out)
  /\ UNCHANGED <<rfeed, now, ownIndex, reactionIndex, startIndex, flagVars,
                 initVars, loopVars, pageVars, outVars, auxVars>>

\* What the read-back of a send found at its index: "match", "mismatch"
\* (another entry's id or timestamp) or "empty".
ReadBack(snd, n) ==
  IF snd.idx >= n THEN "empty"
  ELSE IF feed[snd.idx + 1].id = snd.id /\ feed[snd.idx + 1].ts = snd.ts
    THEN "match" ELSE "mismatch"

\* TEXT/THREAD: the read-back of verifyWriteSuccess returns; on a match the
\* pointer is set to the written index and messageRequestUploaded is emitted,
\* else messageRequestError.  The guard is cleared either way.
SendVerifyDone(s, n) ==
  /\ sends[s].pc = "verify"
  /\ n \in sends[s].n0..Len(feed)
  /\ LET snd == sends[s]
         good == snd.idx < n /\ VerifyMatches(feed[snd.idx + 1], snd)
     IN  /\ ownIndex' = IF good THEN OwnAfterVerified(ownIndex, snd.idx)
                               ELSE ownIndex
         /\ uploaded' = IF good THEN Append(uploaded, snd.idx) ELSE uploaded
         /\ sends' = [sends EXCEPT ![s] =
              IF good THEN [@ EXCEPT !.pc = "done", !.out = "uploaded",
                                     !.chk = ReadBack(snd, n), !.up = @ + 1]
              ELSE SendError(@, ReadBack(snd, n))]
  /\ isSending' = GuardAfterSend(sends'[s].out)
  /\ UNCHANGED <<storeVars, envVars, reactionIndex, startIndex, flagVars,
                 initVars, loopVars, pageVars, received, receivedReactions, auxVars>>

\* TEXT/THREAD: the read-back throws or comes back empty.
SendVerifyFail(s) ==
  /\ sends[s].pc = "verify"
  /\ faults < MaxFaults
  /\ faults' = faults + 1
  /\ sends' = [sends EXCEPT ![s] = SendError(@, "fail")]
  /\ isSending' = GuardAfterSend(sends'[s].out)
  /\ UNCHANGED <<storeVars, now, ownIndex, reactionIndex, startIndex, flagVars,
                 initVars, loopVars, pageVars, outVars, auxVars>>

\* Mutant: the target index is computed from the pointer as it was before
\* the forced refresh.
ReactionPrepareStale(s, rix) ==
  /\ reactionIndex' = rix
  /\ sends' = [sends EXCEPT ![s].pc = "rwrite", ![s].pre = rix,
                            ![s].idx = NextWriteIndex(sends[s].prev),
                            ![s].st = updateReactions(@, sends[s].id),
                            ![s].writes = @ + 1]
  /\ isSending' = TRUE

\* REACTION: the forced refresh returns (or throws, absorbed); the snapshot is
\* merged, the target index computed, the guard set and the write issued.
ReactionPrepare(s, rix) ==
  /\ reactionIndex' = rix
  /\ sends' = [sends EXCEPT ![s].pc = "rwrite", ![s].pre = rix,
                            ![s].idx = NextWriteIndex(rix),
                            ![s].st = updateReactions(@, sends[s].id),
                            ![s].writes = @ + 1]
  /\ isSending' = TRUE

ReactionResyncDone(s, n) ==
  /\ sends[s].pc = "rresync"
  /\ n \in sends[s].n0..Len(rfeed)
  /\ LET next == ReactionNextIndex(LatestNextStr(n))
     IN  /\ receivedReactions' =
              EmitReactions(receivedReactions, sends[s].prev, next)
         /\ ReactionPrepare(s, ReactionAfterRefresh(reactionIndex, next))
  /\ UNCHANGED <<storeVars, envVars, ownIndex, startIndex, flagVars, initVars,
                 loopVars, pageVars, received, uploaded, auxVars>>

ReactionResyncFail(s) ==
  /\ sends[s].pc = "rresync"
  /\ faults < MaxFaults
  /\ faults' = faults + 1
  /\ ReactionPrepare(s, reactionIndex)
  /\ UNCHANGED <<storeVars, now, ownIndex, startIndex, flagVars, initVars,
                 loopVars, pageVars, outVars, auxVars>>

\* REACTION: writeReactionsToIndex returns.  With a receipt,
\* verifyWriteSuccess (called without data) returns without a read-back, the
\* reaction pointer is set to the written index and messageRequestUploaded is
\* emitted.
ReactionWriteDone(s, outcome) ==
  /\ sends[s].pc = "rwrite"
  /\ outcome # "lost" => CanLand(rfeed, sends[s].idx, MaxRFeed)
  /\ outcome # "ok" => faults < MaxFaults
  /\ faults' = IF outcome = "ok" THEN faults ELSE faults + 1
  /\ rfeed' = IF outcome = "lost" THEN rfeed
              ELSE WriteAt(rfeed, sends[s].idx, [by |-> s, st |-> sends[s].st])
  /\ reactionIndex' = IF outcome = "ok" THEN sends[s].idx ELSE reactionIndex
  /\ sends' = [sends EXCEPT ![s] =
       IF outcome = "ok"
         THEN [@ EXCEPT !.pc = "done", !.out = "uploaded", !.up = @ + 1]
         ELSE SendError(@, "none")]
  /\ isSending' = GuardAfterSend(sends'[s].out)
  /\ UNCHANGED <<feed, now, ownIndex, startIndex, flagVars, initVars, loopVars,
                 pageVars, outVars, auxVars>>

\* --------------------------------------------------- fetchPreviousMessages
\* Mutant: the page requested from cursor c ends at c itself.
FetchPrevStartInclusive ==
  /\ page.pc = "idle"
  /\ pages < MaxPages
  /\ ~(startIndex <= 0)
  /\ pages' = pages + 1
  /\ loadingPrevious' = [loadingPrevious EXCEPT !.on = @ + 1]
  /\ page' = [pc |-> "read", lo |-> NewStartIndex(startIndex),
              hi |-> startIndex, n0 |-> Len(feed)]
  /\ UNCHANGED <<storeVars, envVars, ptrVars, flagVars, initVars, loopVars,
                 sends, outVars, auxVars>>

\* fetchPreviousMessages() with a cursor above 0: loadingPreviousMessages(true)
\* is emitted and the page read is issued.
FetchPrevStart ==
  /\ page.pc = "idle"
  /\ pages < MaxPages
  /\ ~(startIndex <= 0)
  /\ pages' = pages + 1
  /\ loadingPrevious' = [loadingPrevious EXCEPT !.on = @ + 1]
  /\ page' = [pc |-> "read", lo |-> NewStartIndex(startIndex),
              hi |-> startIndex - 1, n0 |-> Len(feed)]
  /\ UNCHANGED <<storeVars, envVars, ptrVars, flagVars, initVars, loopVars,
                 sends, outVars, auxVars>>

\* fetchPreviousMessages() with a cursor of 0 or below: it returns at once,
\* emitting loadingPreviousMessages(true) and then (false).
FetchPrevSkip ==
  /\ page.pc = "idle"
  /\ pages < MaxPages
  /\ startIndex <= 0
  /\ pages' = pages + 1
  /\ loadingPrevious' = [on |-> loadingPrevious.on + 1,
                         off |-> loadingPrevious.off + 1]
  /\ UNCHANGED <<storeVars, envVars, ptrVars, flagVars, initVars, loopVars,
                 sends, page, outVars, auxVars>>

\* The page read returns: its valid entries are emitted, the cursor moves and
\* loadingPreviousMessages(false) is emitted.
PageDone(n) ==
  /\ page.pc = "read"
  /\ n \in page.n0..Len(feed)
  /\ received' = Emit(received, ValidIn(RangeIndices(page.lo, page.hi, n)))
  /\ startIndex' = page.lo
  /\ page' = IdlePage
  /\ loadingPrevious' = [loadingPrevious EXCEPT !.off = @ + 1]
  /\ UNCHANGED <<storeVars, envVars, ownIndex, reactionIndex, isSending,
                 flagVars, initVars, loopVars, sends, pages, uploaded, receivedReactions, auxVars>>

\* Mutant: a page read that throws moves the cursor like one that returns.
PageFailMovesCursor ==
  /\ page.pc = "read"
  /\ faults < MaxFaults
  /\ faults' = faults + 1
  /\ startIndex' = page.lo
  /\ page' = IdlePage
  /\ loadingPrevious' = [loadingPrevious EXCEPT !.off = @ + 1]
  /\ UNCHANGED <<storeVars, now, ownIndex, reactionIndex, isSending, flagVars,
                 initVars, loopVars, sends, pages, outVars, auxVars>>

\* The page read throws: the cursor stays and the finally block emits
\* loadingPreviousMessages(false).
PageFail ==
  /\ page.pc = "read"
  /\ faults < MaxFaults
  /\ faults' = faults + 1
  /\ page' = IdlePage
  /\ loadingPrevious' = [loadingPrevious EXCEPT !.off = @ + 1]
  /\ UNCHANGED <<storeVars, now, ptrVars, flagVars, initVars, loopVars, sends,
                 pages, outVars, auxVars>>

\* ---------------------------------------------------------- specification
Options(f) == {NoValue} \cup (0..(Len(f) - 1))
Outcomes == {"ok", "noReceipt", "lost"}

\* The steps of init() after start().
InitSteps ==
  \/ InitOwnTipFail
  \/ \E n \in 0..MaxFeed : InitOwnTipDone(n)
  \/ \E n \in 0..MaxFeed : InitOwnBackfillDone(n)
  \/ InitOwnBackfillFail
  \/ \E n \in 0..MaxFeed : InitHistDone(n)
  \/ InitHistFail
  \/ \E n \in 0..MaxRFeed : InitReaDone(n)
  \/ InitReaFail

\* The steps of the poll loop.
PollSteps ==
  \/ TickStart
  \/ \E n \in 0..MaxFeed : PollMsgDone(n)
  \/ PollMsgFail
  \/ \E n \in 0..MaxRFeed : PollReaDone(n)
  \/ PollReaFail

\* The steps of a TEXT/THREAD send after its start.
TextSteps ==
  \/ \E s \in SendIds, n \in 0..MaxFeed : SendResyncDone(s, n)
  \/ \E s \in SendIds : SendResyncFail(s)
  \/ \E s \in SendIds, outcome \in Outcomes : SendWriteDone(s, outcome)
  \/ \E s \in SendIds, n \in 0..MaxFeed : SendVerifyDone(s, n)
  \/ \E s \in SendIds : SendVerifyFail(s)

\* The steps of a REACTION send after its start.
ReactionSteps ==
  \/ \E s \in SendIds, n \in 0..MaxRFeed : ReactionResyncDone(s, n)
  \/ \E s \in SendIds : ReactionResyncFail(s)
  \/ \E s \in SendIds, outcome \in Outcomes : ReactionWriteDone(s, outcome)

PageSteps ==
  \/ pages = 0 /\ FetchPrevStart
  \/ \E n \in 0..MaxFeed : PageDone(n)
  \/ PageFail

\* init() has settled (loadingInit(false) or criticalError was emitted).
Settled == initPc \in {"ok", "critical"}

\* The storage is quiet while init() runs: other writers act before start()
\* or once init() has settled.
Quiet == initPc = "none" \/ Settled

\* Message sends: other writers append signed entries; the session is started
\* without a checkpoint and, once init() has settled, sends TEXT messages while
\* the poll loop runs and storage calls may fail.  A later send carries a
\* fresh id or, as retrySendMessage does, the id of the first one; the clock
\* may advance between the sends.
NextSend ==
  \/ Quiet /\ OtherAppend("signed")
  \/ Start(NoValue, NoValue, NoValue)
  \/ \E n \in 0..MaxFeed : InitOwnTipDone(n)
  \/ \E n \in 0..MaxFeed : InitOwnBackfillDone(n)
  \/ InitOwnBackfillFail
  \/ \E n \in 0..MaxFeed : InitHistDone(n)
  \/ \E n \in 0..MaxRFeed : InitReaDone(n)
  \/ TickStart
  \/ \E n \in 0..MaxFeed : PollMsgDone(n)
  \/ Settled /\ PollMsgFail
  \/ \E n \in 0..MaxRFeed : PollReaDone(n)
  \/ \E s \in 1..MaxMixed : \E m \in {1, s} :
       Settled /\ SendStart(s, "TEXT", m, 0, {})
  \/ sends[1].pc # "idle" /\ sends[MaxMixed].pc = "idle" /\ ClockTick
  \/ TextSteps

SpecSend == Init /\ [][NextSend]_vars

\* A session writing alone: the feed starts empty, no one else appends, and the
\* session sends TEXT messages with fresh ids, overlapping at will, while its
\* poll loop runs and storage calls may fail.
NextOwn ==
  \/ Start(NoValue, NoValue, NoValue)
  \/ \E n \in 0..MaxFeed : InitOwnTipDone(n)
  \/ \E n \in 0..MaxFeed : InitHistDone(n)
  \/ InitHistFail
  \/ \E n \in 0..MaxRFeed : InitReaDone(n)
  \/ TickStart
  \/ \E n \in 0..MaxFeed : PollMsgDone(n)
  \/ \E n \in 0..MaxRFeed : PollReaDone(n)
  \/ \E s \in SendIds : Settled /\ SendStart(s, "TEXT", s, 0, {})
  \/ TextSteps

SpecOwn == Init /\ [][NextOwn]_vars

\* Starting a session: other writers fill the feeds beforehand (and may append
\* once init() has settled), start() is called with any checkpoint options,
\* init() and the first poll ticks interleave, pages of history are fetched
\* and storage calls may fail.  No message is sent.
NextStart ==
  \/ \E k \in {"signed", "forged", "legacy"} : initPc = "none" /\ OtherAppend(k)
  \/ Settled /\ OtherAppend("signed")
  \/ initPc = "none" /\ OtherReact
  \/ \E latest \in Options(feed), first \in Options(feed), rix \in Options(rfeed) :
       Start(latest, first, rix)
  \/ InitSteps
  \/ PollSteps
  \/ PageSteps

SpecStart == Init /\ [][NextStart]_vars

\* Reactions: other writers append snapshots; the session is started without a
\* checkpoint and, once init() has settled, sends REACTION messages while the
\* poll loop runs and storage calls may fail.
NextReact ==
  \/ Quiet /\ OtherReact
  \/ Start(NoValue, NoValue, NoValue)
  \/ \E n \in 0..MaxFeed : InitOwnTipDone(n)
  \/ InitHistFail
  \/ \E n \in 0..MaxRFeed : InitReaDone(n)
  \/ InitReaFail
  \/ TickStart
  \/ \E n \in 0..MaxFeed : PollMsgDone(n)
  \/ \E n \in 0..MaxRFeed : PollReaDone(n)
  \/ Settled /\ PollReaFail
  \/ \E s \in 1..MaxMixed, prevState \in PrevStates :
       Settled /\ SendStart(s, "REACTION", s, 0, prevState)
  \/ ReactionSteps

SpecReact == Init /\ [][NextReact]_vars

\* Stopping a session: other writers fill the feeds, start() is called
\* without a checkpoint, init() and the poll loop run, and stop() is called at
\* any moment after start().  Timers fire and the reads of a poll tick return
\* or throw in the end.
NextStop ==
  \/ initPc = "none" /\ OtherAppend("signed")
  \/ initPc = "none" /\ OtherReact
  \/ Start(NoValue, NoValue, NoValue)
  \/ \E n \in 0..MaxFeed : InitOwnTipDone(n)
  \/ \E n \in 0..MaxFeed : InitOwnBackfillDone(n)
  \/ InitOwnBackfillFail
  \/ \E n \in 0..MaxFeed : InitHistDone(n)
  \/ InitHistFail
  \/ \E n \in 0..MaxRFeed : InitReaDone(n)
  \/ PollSteps
  \/ Stop

SpecStop == Init /\ [][NextStop]_vars /\ WF_vars(PollSteps)

\* Paging through history: other writers fill the message feed with signed,
\* forged and legacy entries, start() is called with or without a firstIndex
\* checkpoint, init() and the first poll tick run, and fetchPreviousMessages
\* is called at any moment; storage calls may fail.
NextPage ==
  \/ \E k \in {"signed", "forged", "legacy"} : initPc = "none" /\ OtherAppend(k)
  \/ \E first \in {NoValue} \cup (0..MaxCursor) : Start(NoValue, first, NoValue)
  \/ \E n \in 0..MaxFeed : InitOwnTipDone(n)
  \/ \E n \in 0..MaxFeed : InitOwnBackfillDone(n)
  \/ InitOwnBackfillFail
  \/ \E n \in 0..MaxFeed : InitHistDone(n)
  \/ InitHistFail
  \/ \E n \in 0..MaxRFeed : InitReaDone(n)
  \/ \E n \in 0..MaxFeed : PollMsgDone(n)
  \/ \E n \in 0..MaxRFeed : PollReaDone(n)
  \/ pages = 0 /\ FetchPrevStart
  \/ pages = 0 /\ FetchPrevSkip
  \/ \E n \in 0..MaxFeed : PageDone(n)
  \/ PageFail

SpecPage == Init /\ [][NextPage]_vars

\* The feed f has room, within the bound max, for one more entry of another
\* writer and for a write of every send that has not written yet.
Room(f, max) ==
  Len(f) + Cardinality({s \in 1..MaxMixed :
                          sends[s].pc \notin {"verify", "done"}}) < max

\* The events of a send: the session is started without a checkpoint and,
\* once init() has settled, sends messages of either kind, overlapping at
\* will, while other writers append and storage calls may fail.  Every storage
\* call of a send returns or throws in the end.
NextEvents ==
  \/ Room(feed, MaxFeed) /\ Quiet /\ OtherAppend("signed")
  \/ Room(rfeed, MaxRFeed) /\ Quiet /\ OtherReact
  \/ Start(NoValue, NoValue, NoValue)
  \/ \E n \in 0..MaxFeed : InitOwnTipDone(n)
  \/ \E n \in 0..MaxFeed : InitHistDone(n)
  \/ \E n \in 0..MaxRFeed : InitReaDone(n)
  \/ \E s \in 1..MaxMixed, kind \in {"TEXT", "REACTION"} :
       Settled /\ SendStart(s, kind, s, 0, {})
  \/ TextSteps
  \/ ReactionSteps

SpecEvents ==
  Init /\ [][NextEvents]_vars /\ WF_vars(TextSteps \/ ReactionSteps)

\* Retrying: other writers append to both feeds; the session is started
\* without a checkpoint and, once init() has settled, sends a message of
\* either kind; a send that ended in messageRequestError is handed to
\* retrySendMessage, at any later moment; storage calls may fail.
NextRetry ==
  \/ Quiet /\ OtherAppend("signed")
  \/ Quiet /\ OtherReact
  \/ Start(NoValue, NoValue, NoValue)
  \/ \E n \in 0..MaxFeed : InitOwnTipDone(n)
  \/ \E n \in 0..MaxFeed : InitHistDone(n)
  \/ \E n \in 0..MaxRFeed : InitReaDone(n)
  \/ \E kind \in {"TEXT", "REACTION"} : Settled /\ SendStart(1, kind, 1, 0, {})
  \/ sends[1].pc = "done" /\ ClockTick
  \/ \E s \in 2..MaxSends : \E t \in 1..(s - 1) :
       sends[t].out = "error" /\ retrySendMessage(s, t)
  \/ TextSteps
  \/ ReactionSteps

SpecRetry == Init /\ [][NextRetry]_vars

\* Tip discovery: other writers fill the message feed, start() is called with
\* or without a latestIndex checkpoint, and the tip read of initOwnIndex
\* throws any number of times while the rest of init() and the poll loop run.
\* A read that was issued returns or throws in the end.
NextTip ==
  \/ initPc = "none" /\ OtherAppend("signed")
  \/ \E latest \in {NoValue, 0} : Start(latest, NoValue, NoValue)
  \/ InitOwnTipThrow
  \/ \E n \in 0..MaxFeed : InitOwnTipDone(n)
  \/ \E n \in 0..MaxFeed : InitOwnBackfillDone(n)
  \/ \E n \in 0..MaxFeed : InitHistDone(n)
  \/ \E n \in 0..MaxRFeed : InitReaDone(n)
  \/ TickStart
  \/ \E n \in 0..MaxFeed : PollMsgDone(n)
  \/ \E n \in 0..MaxRFeed : PollReaDone(n)

SpecTip ==
  Init /\ [][NextTip]_vars
       /\ WF_vars(InitOwnTipThrow \/ \E n \in 0..MaxFeed : InitOwnTipDone(n))

\* Decoding index strings: the text of an index, in any of its forms, is
\* handed to indexStrToBigint.
SpecCodec == InitCodec /\ [][ParseIndex]_vars

\* Restarting: other writers fill the feeds beforehand, start() is called,
\* init() and the poll loop run, stop() is called at any moment after that and
\* start() again once init() has settled; both calls are without a
\* checkpoint and all reads succeed.
NextRestart ==
  \/ initPc = "none" /\ OtherAppend("signed")
  \/ initPc = "none" /\ OtherReact
  \/ Start(NoValue, NoValue, NoValue)
  \/ Restart(NoValue, NoValue, NoValue)
  \/ Stop
  \/ \E n \in 0..MaxFeed : InitOwnTipDone(n)
  \/ \E n \in 0..MaxFeed : InitOwnBackfillDone(n)
  \/ InitOwnBackfillFail
  \/ \E n \in 0..MaxFeed : InitHistDone(n)
  \/ \E n \in 0..MaxRFeed : InitReaDone(n)
  \/ TickStart
  \/ \E n \in 0..MaxFeed : PollMsgDone(n)
  \/ \E n \in 0..MaxRFeed : PollReaDone(n)
  \/ OldTickStart
  \/ \E n \in 0..MaxFeed : OldPollMsgDone(n)
  \/ \E n \in 0..MaxRFeed : OldPollReaDone(n)

SpecRestart == Init /\ [][NextRestart]_vars

\* Following the stream: the message feed holds one entry when start() is
\* called without a checkpoint; once init() has settled other writers append
\* entries, at any moment at which a poll tick is still to come.  All reads
\* succeed, and every read that was issued returns and every timer fires.
FollowSteps ==
  \/ \E n \in 0..MaxFeed : InitOwnTipDone(n)
  \/ \E n \in 0..MaxFeed : InitHistDone(n)
  \/ \E n \in 0..MaxRFeed : InitReaDone(n)
  \/ TickStart
  \/ \E n \in 0..MaxFeed : PollMsgDone(n)
  \/ \E n \in 0..MaxRFeed : PollReaDone(n)

NextFollow ==
  \/ initPc = "none" /\ Len(feed) = 0 /\ OtherAppend("signed")
  \/ Len(feed) = 1 /\ Start(NoValue, NoValue, NoValue)
  \/ Settled /\ ticks < MaxTicks /\ OtherAppend("signed")
  \/ FollowSteps

SpecFollow == Init /\ [][NextFollow]_vars /\ WF_vars(FollowSteps)

\* Signing: the session is started on an empty feed and, once init() has
\* settled, sends TEXT messages; the clock may advance between the Date.now()
\* of getSignature and the one of the timestamp field, and between sends.
NextSign ==
  \/ Start(NoValue, NoValue, NoValue)
  \/ \E n \in 0..MaxFeed : InitOwnTipDone(n)
  \/ \E n \in 0..MaxFeed : InitHistDone(n)
  \/ \E n \in 0..MaxRFeed : InitReaDone(n)
  \/ \E s \in 1..MaxMixed, adv \in 0..MaxClock :
       Settled /\ SendStart(s, "TEXT", s, adv, {})
  \/ ClockTick
  \/ TextSteps

SpecSign == Init /\ [][NextSign]_vars

\* ------------------------------------------------------------ properties
\* The step in which send s finishes the read-back of its write.
VerifyStep(s) == sends[s].pc = "verify" /\ sends'[s].pc = "done"

\* A TEXT/THREAD write is outstanding: issued, and its verification not finished.
WriteOutstanding == \E s \in SendIds : sends[s].pc \in {"write", "verify"}

\* The step in which the message branch of a poll tick finishes.
PollMsgStep == loop.m = "read" /\ loop'.m # "read"

\* No entry of the message feed was written by another writer.
WritesAlone == \A k \in 1..Len(feed) : feed[k].id # 0

\* C1: when the read-back of a TEXT/THREAD send returns an entry whose id or
\* timestamp differs from what was written, the send emits messageRequestError,
\* not messageRequestUploaded, and leaves the message pointer as it is.
C1_CollisionReported ==
  [][\A s \in SendIds :
       (VerifyStep(s) /\ sends'[s].chk = "mismatch")
         => /\ sends'[s].out = "error"
            /\ uploaded' = uploaded
            /\ ownIndex' = ownIndex]_vars

C1_Witness ==
  \E s \in SendIds : sends[s].pc = "done" /\ sends[s].chk = "mismatch"
                     /\ sends[s].out = "error"

\* C2: when the read-back of a TEXT/THREAD send matches, the message pointer
\* after the send is the pointer the send had after its own tip resync plus 1
\* (0 when that was -1), whatever the poll loop and other writers did meanwhile.
C2_VerifiedAdvancesByOne ==
  [][\A s \in SendIds :
       (VerifyStep(s) /\ sends'[s].chk = "match")
         => /\ ownIndex' = (IF sends[s].pre = -1 THEN 0 ELSE sends[s].pre + 1)
            /\ sends'[s].out = "uploaded"]_vars

\* A verified send completes after the poll loop moved the pointer past the
\* value the send computed its index from.
C2_Witness ==
  \E s \in SendIds : /\ sends[s].pc = "done" /\ sends[s].chk = "match"
                     /\ sends[s].out = "uploaded"
                     /\ ownIndex = sends[s].pre + 1
                     /\ \E i \in DOMAIN received : i > ownIndex /\ received[i] > 0

\* C3: a session writing alone to a feed that started empty uploads at the
\* indices 0, 1, 2, ... in this order.
C3_UploadedConsecutive ==
  WritesAlone => \A k \in 1..Len(uploaded) : uploaded[k] = k - 1

\* C4: the message pointer never decreases.
C4_OwnIndexMonotonic == [][ownIndex' >= ownIndex]_vars

\* C7: while a TEXT/THREAD write is outstanding the poll loop neither changes
\* the message pointer nor emits messageReceived from its tip refresh.
C7_GuardSerializesPoll ==
  [][(WriteOutstanding /\ PollMsgStep)
       => (ownIndex' = ownIndex /\ received' = received)]_vars

\* Every entry of the message feed carries a valid signature.
AllSigned == \A k \in 1..Len(feed) : validateUserSignature(feed[k])

\* C5: no entry of the message feed is emitted as messageReceived more than
\* once during a session, whichever paths deliver it.
C5_NoDuplicateDelivery == \A i \in DOMAIN received : received[i] <= 1

\* C6: started with the checkpoint latestIndex = L on a feed whose tip is
\* T > L, the session emits exactly the entries L+1..T, once each, whatever
\* the order of init() and the first poll tick, and later ticks add none.
C6_CheckpointBackfill ==
  (/\ initPc = "ok" /\ initOwn.latest # NoValue
   /\ faults = 0 /\ pages = 0 /\ AllSigned
   /\ Len(feed) = initOwn.n0 /\ Len(feed) - 1 > initOwn.latest)
    => \A i \in DOMAIN received :
         received[i] = IF i > initOwn.latest /\ i <= Len(feed) - 1 THEN 1 ELSE 0

\* The step in which the write of REACTION send s returns.
ReactionWriteStep(s) == sends[s].pc = "rwrite" /\ sends'[s].pc = "done"

\* The snapshot at the index REACTION send s wrote to is another writer's.
ReactionCollision(s) ==
  /\ sends[s].idx < Len(rfeed)
  /\ rfeed[sends[s].idx + 1].by # s

\* C8: a REACTION send whose written index holds another writer's snapshot
\* ends with messageRequestError and leaves the reaction pointer as it was.
C8_ReactionCollisionReported ==
  \A s \in SendIds :
    (sends[s].kind = "REACTION" /\ sends[s].pc = "done" /\ ReactionCollision(s))
      => sends[s].out = "error"

\* C9: the reaction pointer never decreases.
C9_ReactionIndexMonotonic == [][reactionIndex' >= reactionIndex]_vars

\* No snapshot of the reaction feed was written by another writer.
ReactsAlone == \A k \in 1..Len(rfeed) : rfeed[k].by # 0

\* C10: with no other writer, once the write of a REACTION send has succeeded
\* the latest snapshot of the feed (what a refresh issued now reads) is the
\* merged state the send wrote.
C10_RefreshSeesWrittenState ==
  [][\A s \in SendIds :
       (ReactsAlone /\ ReactionWriteStep(s) /\ sends'[s].out = "uploaded")
         => /\ rfeed' # <<>>
            /\ rfeed'[Len(rfeed')].st = sends[s].st]_vars

StopStep == ~stopFetch /\ stopFetch'

\* C12: when stop() returns the message pointer, the reaction pointer and the
\* history cursor are all -1.
C12_StopResetsPointers ==
  [][StopStep => (ownIndex' = -1 /\ reactionIndex' = -1 /\ startIndex' = -1)]_vars

\* C13: once stop() was called no tick that begins issues a read (the tick in
\* flight may complete), and the poll loop exits in the end.  No start()
\* follows the stop().
C13_StopEndsLoop ==
  /\ [][(stopFetch /\ loop.pc = "wait" /\ loop'.pc # "wait")
          => (loop' = IdleLoop /\ ticks' = ticks)]_vars
  /\ stopFetch ~> (loop.pc = "off")

\* stop() was called while the loop was running; the loop has run a timer
\* tick and has exited.
C13_Witness == stopFetch /\ loop.pc = "off" /\ ticks >= 1

\* C14: no read of a poll tick is issued or in flight while one of the three
\* initialisations has not settled.
C14_PollAfterInit ==
  initPc = "run" => (loop.m # "read" /\ loop.r # "read")

\* C15: criticalError is emitted exactly when initOwnIndex rejected; an error
\* of history init or of reaction init alone leaves init() to end with
\* loadingInit(false) and the message pointer to follow the tip read.
C15_CriticalIffOwnIndexFails ==
  /\ initPc = "critical" => initOwn.pc = "rejected"
  /\ (Settled /\ initOwn.pc = "rejected") => initPc = "critical"
  /\ (Settled /\ initOwn.pc = "done") => initPc = "ok"

\* init() ended with loadingInit(false) and a pointer at the tip although
\* history init or reaction init reported an error.
C15_Witness ==
  initPc = "ok" /\ initOwn.pc = "done" /\ (initHist.err \/ initRea.err)
  /\ ownIndex >= 1

\* C16: every entry emitted as messageReceived passes signature validation.
C16_OnlyValidDelivered ==
  \A i \in DOMAIN received :
    (received[i] > 0 /\ i < Len(feed)) => validateUserSignature(feed[i + 1])

\* The step in which fetchPreviousMessageState issues its range read.
PageIssueStep == page.pc = "idle" /\ page'.pc = "read"

\* The step in which the range read of a page returns.
PageDoneStep == page.pc = "read" /\ page'.pc = "idle" /\ faults' = faults

\* C17: from a cursor c > 0 a page requests the indices max(0, c-9)..c-1,
\* none of them negative, and then sets the cursor to max(0, c-9).
C17_PageRange ==
  [][/\ PageIssueStep =>
          /\ startIndex > 0
          /\ page'.lo = Max(0, startIndex - 9)
          /\ page'.hi = startIndex - 1
          /\ page'.lo >= 0
     /\ PageDoneStep => startIndex' = Max(0, page.hi + 1 - 9)]_vars

\* The page requested from cursor 12 is 3..11.
C17_Witness == page.pc = "read" /\ page.lo = 3 /\ page.hi = 11

\* C18: hasPreviousMessages() is true exactly when the cursor is above 0,
\* false for 0 and for -1, and a fetchPreviousMessages call made while it is
\* false issues no read and changes nothing.
C18_HasPrevious ==
  /\ [](/\ hasPreviousMessages <=> startIndex > 0
        /\ startIndex \in {-1, 0} => ~hasPreviousMessages)
  /\ [][(pages' # pages /\ ~hasPreviousMessages)
          => /\ page' = page
             /\ UNCHANGED <<storeVars, envVars, ptrVars, flagVars, initVars,
                            loopVars, sends, outVars, auxVars>>]_vars

\* fetchPreviousMessages was called with the cursor at -1.
C18_Witness == pages = 1 /\ page.pc = "idle" /\ startIndex = -1

\* C19: when the range read of a page returns, every valid entry of the page
\* is emitted, no invalid one is, no error is raised and the cursor moves to
\* the lower bound of the page.
C19_PageDropsInvalid ==
  [][PageDoneStep =>
       /\ \A i \in DOMAIN received :
            received'[i] =
              IF page.lo <= i /\ i <= page.hi /\ i < Len(feed)
                 /\ validateUserSignature(feed[i + 1])
                THEN Min(received[i] + 1, 2) ELSE received[i]
       /\ startIndex' = page.lo
       /\ initPc' = initPc]_vars

\* The page 0..1 held a forged entry at index 0 and a valid one at index 1:
\* index 1 was emitted, index 0 was not, the cursor is 0.
C19_Witness ==
  /\ pages = 1 /\ page.pc = "idle" /\ startIndex = 0 /\ Len(feed) = 3
  /\ ~validateUserSignature(feed[1]) /\ validateUserSignature(feed[2])
  /\ received[0] = 0 /\ received[1] = 1

\* C20: a sendMessage call issues at most one write to the storage; once it
\* has ended, by success, collision, write failure or failed verification,
\* it does nothing more.
C20_SingleWrite ==
  /\ [](\A s \in SendIds : sends[s].writes <= 1)
  /\ [][\A s \in SendIds : sends[s].pc = "done" => sends'[s] = sends[s]]_vars

\* A TEXT send ended on a collision and a REACTION send on a write failure,
\* each after one write.
C20_Witness ==
  \E s, t \in SendIds :
    /\ sends[s].pc = "done" /\ sends[s].chk = "mismatch" /\ sends[s].writes = 1
    /\ sends[t].pc = "done" /\ sends[t].kind = "REACTION"
    /\ sends[t].out = "error" /\ sends[t].writes = 1

\* C21: whenever a sendMessage call finishes, whatever its outcome, isSending
\* is false at the moment the call returns.
C21_GuardClearedOnReturn ==
  [][\A s \in SendIds :
       (sends[s].pc # "done" /\ sends'[s].pc = "done") => ~isSending']_vars

\* A send has returned with an error while the write of another send is
\* still outstanding, and the guard is clear.
C21_Witness ==
  \E s, t \in SendIds :
    /\ sends[s].pc = "done" /\ sends[s].out = "error"
    /\ sends[t].pc \in {"write", "verify", "rwrite"}
    /\ ~isSending

\* The step in which a branch of the current poll tick settles.
BranchSettles == loop.pc = "tick" /\ loop' # loop

\* C22: a poll tick starts only from the timer, which is set only once both
\* branches of the previous tick have settled, so two ticks never overlap; a
\* branch that fails settles like one that succeeds, and the step that
\* settles the second branch puts the next tick on the timer.
C22_TicksDoNotOverlap ==
  /\ [](loop.pc = "tick" => loop.m = "read" \/ loop.r = "read")
  /\ [][/\ ticks' # ticks => loop.pc = "wait"
        /\ BranchSettles =>
             IF loop.m = "read" /\ loop.r = "read"
               THEN /\ loop'.pc = "tick"
                    /\ (loop'.m = "read") # (loop'.r = "read")
               ELSE loop'.pc = "wait"]_vars

\* The first tick's tip read threw and its reaction read found no snapshot
\* (the message feed holds two entries, initOwnIndex has not read the tip yet,
\* and the pointer is still -1); the next tick has started.
C22_Witness ==
  /\ ticks = 1 /\ loop.pc = "tick" /\ loop.m = "read" /\ loop.r = "read"
  /\ faults = 1 /\ rfeed = <<>> /\ Len(feed) = 2
  /\ initOwn.pc = "tip" /\ ownIndex = -1

\* The step in which a poll tick starts and issues its branches.
TickIssues ==
  ticks' # ticks \/ (~fetchProcessRunning /\ fetchProcessRunning')

\* A sendMessage call is in flight: started and not yet returned.
SendInFlight == \E s \in SendIds : sends[s].pc \notin {"idle", "done"}

\* C23 as stated: a poll tick that starts while any send is in flight issues
\* its reaction read and skips its message-tip refresh.
C23_TickWhileSendInFlight ==
  [][(TickIssues /\ SendInFlight) =>
       (loop'.r = "read" /\ loop'.m = "skipped")]_vars

\* C23: the guard never suppresses the reaction refresh: every poll tick,
\* also one that starts while a send is in flight, issues its reaction read
\* at the index after the reaction pointer; its message-tip refresh is
\* skipped exactly when isSending is set at that moment.
C23_ReactionRefreshNotGuarded ==
  [][TickIssues =>
       /\ loop'.pc = "tick"
       /\ loop'.r = "read" /\ loop'.ri = reactionIndex' + 1
       /\ (loop'.m = "skipped") = isSending]_vars

\* A tick started while the write of a REACTION send was outstanding: its
\* message branch was skipped, and its reaction read is about to return the
\* snapshot another writer put at the index after the pointer.
C23_Witness ==
  /\ isSending /\ SendInFlight
  /\ loop.pc = "tick" /\ loop.m = "skipped" /\ loop.r = "read"
  /\ loop.ri < Len(rfeed)

\* The step in which send s issues its write.
WriteIssued(s) == sends'[s].writes = sends[s].writes + 1

\* C24: retrySendMessage(m) performs one new send with the id and kind of m
\* (the body and the targetMessageId are handed on with them), a fresh
\* timestamp and signature, and no more than one write; the index it writes
\* to is computed from the pointer at the time of that write, not taken from
\* m's earlier index.
C24_RetryIsOneNewSend ==
  /\ [](\A s \in SendIds : sends[s].writes <= 1 /\ sends[s].ini <= 1)
  /\ [][\A s \in 2..MaxSends :
          /\ (sends[s].pc = "idle" /\ sends'[s].pc # "idle") =>
               /\ \E t \in 1..(s - 1) :
                    /\ sends[t].out = "error"
                    /\ sends'[s].id = sends[t].id
                    /\ sends'[s].kind = sends[t].kind
               /\ sends'[s].ts = now' /\ sends'[s].sigTs = now'
               /\ sends'[s].ini = 1
          /\ WriteIssued(s) =>
               sends'[s].idx = NextWriteIndex(
                 IF sends[s].kind = "REACTION"
                   THEN reactionIndex' ELSE ownIndex')]_vars

\* A send wrote to index 0 and ended in an error; its retry, with the same id
\* and a later timestamp, was uploaded at index 2.
C24_Witness ==
  /\ sends[1].pc = "done" /\ sends[1].out = "error" /\ sends[1].idx = 0
  /\ sends[2].pc = "done" /\ sends[2].out = "uploaded" /\ sends[2].idx = 2
  /\ sends[2].id = sends[1].id /\ sends[2].ts > sends[1].ts

\* C25: retryAwaitableAsync(fn, n, d) terminates.  In initOwnIndex (n = 10)
\* the tip read is attempted at most 11 times: every failure uses up one
\* retry, the first success resolves the call and the read is not attempted
\* again, and the 11th failure in a row rejects it, leaving ownIndex as it
\* was.
C25_RetryTerminates ==
  /\ [](/\ initOwn.left \in 0..RETRY_COUNT
        /\ initOwn.pc = "tip" => faults = RETRY_COUNT - initOwn.left)
  /\ [][/\ (initOwn.pc = "tip" /\ initOwn'.pc = "rejected") =>
             /\ initOwn.left = 0 /\ faults' = RETRY_COUNT + 1
             /\ ownIndex' = ownIndex
        /\ (initOwn.pc = "tip" /\ initOwn'.pc \notin {"tip", "rejected"}) =>
             faults' = faults
        /\ initOwn.pc \in {"backfill", "done", "rejected"} =>
             (initOwn'.pc # "tip" /\ faults' = faults)]_vars
  /\ (initOwn.pc = "tip") ~> (initOwn.pc # "tip")

\* The tip read failed 11 times: initOwnIndex rejected, and the pointer is
\* still at the checkpoint 0 although the feed holds entries up to index 2.
C25_Witness ==
  /\ initOwn.pc = "rejected" /\ faults = RETRY_COUNT + 1
  /\ initOwn.latest = 0 /\ ownIndex = 0 /\ Len(feed) = 3
  /\ initPc = "critical"

\* C26: indexStrToBigint round-trips: the decimal text, the fixed-width
\* hexadecimal text and the unpadded hexadecimal text of an index i all decode
\* to i, and an absent or empty string decodes to undefined.
C26_RoundTrip ==
  codec.done =>
    codec.out = (IF codec.form = "absent" THEN NoValue ELSE codec.i)

\* C27: every TEXT/THREAD sendMessage call performs a tip read of its own
\* before it computes its index, also when it starts while another send is
\* in flight, so the index it writes to is the tip this read observed plus
\* one (0 for an empty stream).
C27_FreshTipBeforeWrite ==
  [][\A s \in SendIds :
       (WriteIssued(s) /\ sends[s].kind # "REACTION") =>
         /\ sends[s].pc = "resync"
         /\ sends'[s].idx \in sends[s].n0..Len(feed)]_vars

\* The step in which a reaction refresh (of init(), of a poll tick or of a
\* REACTION send) returns without a storage failure.
RefreshReturns ==
  /\ faults' = faults
  /\ \/ initRea.pc = "read" /\ initRea'.pc # "read"
     \/ loop.r = "read" /\ loop'.r # "read"
     \/ \E s \in SendIds : sends[s].pc = "rresync" /\ sends'[s].pc # "rresync"

\* C28: a reaction refresh that returns while the reaction pointer is p has
\* observed a next-free index n such that the snapshot is emitted as
\* messageReceived, once, exactly when n > p + 1, and the pointer afterwards
\* is max(p, n - 1); with n = 0 (empty stream, absent index, 0 or the -1
\* sentinel) nothing is emitted and the pointer is unchanged.
C28_EmitIffBeyondPointer ==
  [][RefreshReturns =>
       \E n \in 0..MaxRFeed :
         /\ receivedReactions' =
              IF n > reactionIndex + 1
                THEN [receivedReactions EXCEPT ![n] = Min(@ + 1, 2)]
                ELSE receivedReactions
         /\ reactionIndex' = Max(reactionIndex, n - 1)]_vars

\* C29: a REACTION send hands to the storage the snapshot merge(prevState or
\* empty, its reaction) for the index (p = -1 ? 0 : p + 1), where p is the
\* reaction pointer after the send's own forced refresh; when the write
\* returns a receipt the reaction pointer is set to that index.
C29_ReactionWriteIndex ==
  [][\A s \in SendIds :
       /\ (sends[s].pc = "rresync" /\ sends'[s].pc = "rwrite") =>
            /\ sends'[s].idx =
                 (IF reactionIndex' = -1 THEN 0 ELSE reactionIndex' + 1)
            /\ sends'[s].st = sends[s].st \cup {sends[s].id}
            /\ sends'[s].writes = 1
       /\ (sends[s].pc = "rwrite" /\ sends'[s].out = "uploaded") =>
            /\ reactionIndex' = sends[s].idx
            /\ rfeed' = WriteAt(rfeed, sends[s].idx,
                                [by |-> s, st |-> sends[s].st])]_vars

\* A REACTION send with a prior state was uploaded: its forced refresh moved
\* the pointer, the snapshot at the index after it is the prior state plus
\* the new reaction, and the pointer is that index.
C29_Witness ==
  \E s \in SendIds :
    /\ sends[s].pc = "done" /\ sends[s].out = "uploaded"
    /\ sends[s].kind = "REACTION"
    /\ sends[s].prev < sends[s].pre /\ sends[s].idx = sends[s].pre + 1
    /\ sends[s].idx < Len(rfeed)
    /\ rfeed[sends[s].idx + 1] = [by |-> s, st |-> {0, sends[s].id}]
    /\ reactionIndex = sends[s].idx

\* C30: when the backfill range read of initOwnIndex fails, after the pointer
\* was moved to the tip, the failure is reported (initOwnIndex rejects, so
\* init() ends in criticalError) and the pointer is left where it is, at or
\* beyond the tip; no later poll tick emits an entry of the unfetched range.
C30_FailedBackfillNotRetried ==
  /\ [](initOwn.pc = "rejected" =>
          (initOwn.err /\ initPc \in {"run", "critical"}))
  /\ [][/\ (initOwn.pc = "backfill" /\ initOwn'.pc = "rejected") =>
             (ownIndex' = ownIndex /\ ownIndex >= initOwn.hi)
        /\ (initOwn.pc = "rejected" /\ PollMsgStep) =>
             \A i \in 0..(MaxFeed - 1) :
               i <= initOwn.hi => received'[i] = received[i]]_vars

\* The backfill of the range 1..2 after the checkpoint 0 failed: init() ended
\* in criticalError, the pointer is at the tip 2, the poll ticks have run,
\* and the entry at index 1 was never emitted.
C30_Witness ==
  /\ initOwn.pc = "rejected" /\ initOwn.lo = 1 /\ initOwn.hi = 2
  /\ faults = 1 /\ initPc = "critical"
  /\ ownIndex = 2 /\ received[1] = 0
  /\ ticks = MaxTicks /\ loop.pc = "wait"

\* C31: at most one poll loop is active at any time: after stop() and a
\* later start(), the loop of the earlier start() does not start another
\* tick while the loop of the later one is polling.
C31_AtMostOneLoop ==
  [][(oldLoop.pc = "wait" /\ oldLoop'.pc = "tick") => loop.pc = "off"]_vars

\* C32: no message is skipped: every entry that other writers append while
\* the session is running is emitted as messageReceived in the end, also
\* when the tip has advanced by more than one index between two tip reads.
C32_NoMessageSkipped ==
  <>[](\A i \in 1..(MaxFeed - 1) : i < Len(feed) => received[i] > 0)

\* C33: a session never writes to a message-feed index that its own
\* immediately preceding tip read returned as occupied: the index a TEXT send
\* computes after its tip resync has returned is beyond every entry that read
\* saw (with one entry, at index 0, the send targets index 1).
C33_NoWriteToOccupiedIndex ==
  [][\A s \in SendIds :
       (sends[s].pc = "resync" /\ sends'[s].pc = "write" /\ faults' = faults)
         => sends'[s].idx >= sends[s].n0]_vars

\* C34: with overlapping sendMessage calls, isSending is true for as long as
\* at least one of them has a write or a verification outstanding.
C34_GuardCoversEverySend ==
  (\E s \in SendIds : sends[s].pc \in {"write", "verify", "rwrite"})
    => isSending

\* C35: after stop() has returned, no operation that was in flight at the
\* time of the call changes the message pointer, the reaction pointer or the
\* history cursor when it completes.
C35_FrozenAfterStop ==
  [][stopFetch =>
       /\ ownIndex' = ownIndex
       /\ reactionIndex' = reactionIndex
       /\ startIndex' = startIndex]_vars

\* C36: every message built by sendMessage passes validateUserSignature: the
\* timestamp its signature covers equals its own timestamp field, whatever
\* the clock does between the two reads.
C36_OwnMessagesVerify ==
  \A s \in SendIds :
    sends[s].pc # "idle" => validateUserSignature(SendEntry(sends[s]))

\* C37: no range read issued by the engine has a negative start index,
\* neither a page of history nor the backfill of initOwnIndex, which without
\* a checkpoint asks for the last entries up to the tip.
C37_NoNegativeRangeStart ==
  /\ initOwn.pc = "backfill" => initOwn.lo >= 0
  /\ page.pc = "read" => page.lo >= 0

\* Paging to the start of history: other writers fill the message feed, the
\* session is started from a latestIndex checkpoint c >= 1, which is also
\* the history cursor (no firstIndex is given), init() and the first poll
\* tick run, and fetchPreviousMessages is called again and again, each call
\* after the one before has returned; a page read may throw.
NextPages ==
  \/ initPc = "none" /\ OtherAppend("signed")
  \/ \E c \in 1..MaxCursor : Start(c, NoValue, NoValue)
  \/ \E n \in 0..MaxFeed : InitOwnTipDone(n)
  \/ \E n \in 0..MaxFeed : InitOwnBackfillDone(n)
  \/ \E n \in 0..MaxRFeed : InitReaDone(n)
  \/ \E n \in 0..MaxFeed : PollMsgDone(n)
  \/ \E n \in 0..MaxRFeed : PollReaDone(n)
  \/ initPc # "none" /\ FetchPrevStart
  \/ initPc # "none" /\ FetchPrevSkip
  \/ \E n \in 0..MaxFeed : PageDone(n)
  \/ PageFail

SpecPages == Init /\ [][NextPages]_vars

\* The number of pages of width COMMENTS_TO_READ that cover 0..c-1.
PagesFrom(c) == (c + COMMENTS_TO_READ - 1) \div COMMENTS_TO_READ

\* C38: from a cursor c > 0, with every read succeeding, the k-th call of
\* fetchPreviousMessages requests exactly the indices max(0, c-9k)..c-9(k-1)-1
\* (so the pages are adjacent and cover 0..c-1 once), each returned page
\* lowers the cursor, the cursor is 0 exactly from the ceil(c/9)-th call on,
\* and a call made with the cursor at 0 changes nothing.
C38_PagesReachZero ==
  /\ []((initOwn.latest >= 1 /\ faults = 0) =>
          /\ page.pc = "idle" =>
               /\ startIndex = Max(0, initOwn.latest - COMMENTS_TO_READ * pages)
               /\ startIndex = 0 <=> pages >= PagesFrom(initOwn.latest)
          /\ page.pc = "read" =>
               /\ pages <= PagesFrom(initOwn.latest)
               /\ page.hi = initOwn.latest - COMMENTS_TO_READ * (pages - 1) - 1
               /\ page.lo = Max(0, initOwn.latest - COMMENTS_TO_READ * pages))
  /\ [][/\ (page.pc = "read" /\ page'.pc = "idle" /\ faults' = faults)
             => startIndex' < startIndex
        /\ (pages' # pages /\ startIndex = 0)
             => /\ page' = page
                /\ startIndex' = startIndex
                /\ received' = received]_vars

\* From cursor 12 two pages were read and a third call found the cursor at 0.
C38_Witness ==
  /\ initOwn.latest = 12 /\ faults = 0
  /\ pages = 3 /\ page.pc = "idle" /\ startIndex = 0
  /\ loadingPrevious = [on |-> 3, off |-> 3]

\* C39: every fetchPreviousMessages call emits loadingPreviousMessages(true)
\* and, when it ends, exactly one loadingPreviousMessages(false), also when
\* its page read throws; a page read that throws leaves the cursor where it
\* was, so that the call after it requests the same page again.
C39_LoadingPreviousPaired ==
  /\ [](/\ loadingPrevious.on = pages
        /\ loadingPrevious.off = IF page.pc = "read" THEN pages - 1 ELSE pages
        /\ (initOwn.latest >= 1 /\ page.pc = "read") =>
             /\ page.hi = initOwn.latest
                            - COMMENTS_TO_READ * (pages - 1 - faults) - 1
             /\ page.lo = Max(0, initOwn.latest
                                   - COMMENTS_TO_READ * (pages - faults)))
  /\ [][(page.pc = "read" /\ page'.pc = "idle" /\ faults' # faults)
          => /\ startIndex' = startIndex
             /\ received' = received
             /\ loadingPrevious'.off = loadingPrevious.off + 1]_vars

\* From cursor 12 the first call failed and the second call has requested
\* the page 3..11 again.
C39_Witness ==
  /\ initOwn.latest = 12 /\ faults = 1
  /\ pages = 2 /\ page.pc = "read" /\ page.lo = 3 /\ page.hi = 11
  /\ loadingPrevious = [on |-> 2, off |-> 1]

\* The steps of init() when the tip read of initOwnIndex may throw on every
\* attempt and the backfill read may throw.
InitRun ==
  \/ InitOwnTipThrow
  \/ \E n \in 0..MaxFeed : InitOwnTipDone(n)
  \/ \E n \in 0..MaxFeed : InitOwnBackfillDone(n)
  \/ InitOwnBackfillFail
  \/ \E n \in 0..MaxFeed : InitHistDone(n)
  \/ \E n \in 0..MaxRFeed : InitReaDone(n)

\* Initialization to its end: other writers fill the message feed, start() is
\* called with or without a latestIndex checkpoint, and every read init()
\* issued returns or throws in the end.
NextInit ==
  \/ initPc = "none" /\ OtherAppend("signed")
  \/ \E latest \in {NoValue, 0} : Start(latest, NoValue, NoValue)
  \/ InitRun

SpecInit == Init /\ [][NextInit]_vars /\ WF_vars(InitRun)

\* C40: every loadingInit(true) emitted by start() is followed in the end by
\* loadingInit(false), also when init() ends with criticalError.
C40_LoadingInitEnds == (initPc = "run") ~> (initPc = "ok")

====
